---------------------------- MODULE Spec2Model ----------------------------
(***************************************************************************)
(* A model of the patch blending engine (inference/utils/blend.py) and of  *)
(* the vectorisation stage (postprocessing/polygonize.py).                 *)
(*                                                                         *)
(* Arithmetic.  Geographic coordinates and pixel sizes are integers.       *)
(* Weights are float16 values and are held as integer numerators over      *)
(* WScale (a float16 value in [1/8, 1] is a multiple of 2^-13).  The       *)
(* float32 accumulators are held exactly (units of 1/WScale), and the      *)
(* normalised result is an exact rational [n, d]: float32 rounding of      *)
(* sums, products and quotients is not part of the model.                  *)
(***************************************************************************)
EXTENDS Integers, Sequences, FiniteSets, TLC

(***************************************************************************)
(* Bounds of the model.                                                    *)
(***************************************************************************)
\* longest patch list handed to blend_patches_to_raster
MaxPatches == 3
\* largest patch height and width for which a weight map is computed alone
MaxDim == 8
\* longest raster list handed to raster_to_polygons_gdal
MaxRasters == 3

WScale == 2^13

(***************************************************************************)
(* Integer helpers.                                                        *)
(***************************************************************************)
Min(a, b) == IF a <= b THEN a ELSE b

Max(a, b) == IF a >= b THEN a ELSE b

Abs(a) == IF a < 0 THEN -a ELSE a

RECURSIVE GCD(_, _)
GCD(a, b) == IF b = 0 THEN a ELSE GCD(b, a % b)

\* a rational n/d (d > 0) in lowest terms
Rat(n, d) ==
    LET g == GCD(Abs(n), d)
    IN  [n |-> n \div g, d |-> d \div g]

\* int(np.ceil(n / d)) for d > 0
CeilDiv(n, d) == -((-n) \div d)

\* int(round(n / d)) for d > 0: Python rounds halves to the even neighbour
RoundHalfEven(n, d) ==
    LET q == n \div d
        r == n % d
    IN  IF 2 * r < d THEN q
        ELSE IF 2 * r > d THEN q + 1
        ELSE IF q % 2 = 0 THEN q ELSE q + 1

RECURSIVE BinaryExponent(_, _, _)
\* the least k >= 0 with n * 2^k >= d, for 0 < n <= d
BinaryExponent(n, d, k) ==
    IF n * (2^k) >= d THEN k ELSE BinaryExponent(n, d, k + 1)

\* astype(np.float16) of n/d in [0, 1]: an 11 bit significand, halves to even.
\* The result is the numerator over WScale (exact for values >= 1/8).
Float16(n, d) ==
    IF n = 0 THEN 0
    ELSE LET k == BinaryExponent(n, d, 0)
             q == RoundHalfEven(n * (2^(10 + k)), d)
         IN  (q * WScale) \div (2^(10 + k))

(***************************************************************************)
(* The weight functions.                                                   *)
(***************************************************************************)
\* a mutant of _distance_weight: the far edge taken at h and w, not h-1 and w-1
DistanceWeightOffByOne(h, w, yy, xx) ==
    LET dist_y == Min(yy, h - yy)
        dist_x == Min(xx, w - xx)
        dist == Min(dist_y, dist_x)
    IN  Float16(Max(2 * dist, 0), Min(h, w))

\* _distance_weight(h, w)[yy, xx]: dist / (0.5 * min(h, w)), as float16
DistanceWeight(h, w, yy, xx) ==
    LET dist_y == Min(yy, h - 1 - yy)
        dist_x == Min(xx, w - 1 - xx)
        dist == Min(dist_y, dist_x)
    IN  Float16(Max(2 * dist, 0), Min(h, w))

\* np.hanning(M) for M <= 5, in quarters: 0.5 - 0.5 cos(2 pi n / (M - 1)),
\* and np.hanning(1) = [1]
Hanning(M) ==
    CASE M = 1 -> <<4>>
      [] M = 2 -> <<0, 0>>
      [] M = 3 -> <<0, 4, 0>>
      [] M = 4 -> <<0, 3, 3, 0>>
      [] M = 5 -> <<0, 2, 4, 2, 0>>

\* _hann_weight(h, w)[yy, xx]: np.outer(wy, wx), as float16
HannWeight(h, w, yy, xx) ==
    Float16(Hanning(h)[yy + 1] * Hanning(w)[xx + 1], 16)

\* a mutant of BlendWeight: 'average' tapered like 'smooth'
BlendWeightTapered(mode, h, w, yy, xx) ==
    CASE mode = "hann" -> HannWeight(h, w, yy, xx)
      [] OTHER -> DistanceWeight(h, w, yy, xx)

\* the weight of cell (yy, xx) of an h x w patch under a recognised blend mode
BlendWeight(mode, h, w, yy, xx) ==
    CASE mode = "average" -> WScale
      [] mode = "smooth" -> DistanceWeight(h, w, yy, xx)
      [] mode = "hann" -> HannWeight(h, w, yy, xx)

BlendModes == {"average", "smooth", "hann"}

(***************************************************************************)
(* The patch files.  A patch is a north-up single band raster: its upper   *)
(* left corner (left, top), its pixel size px, its shape (h, w) and its    *)
(* samples; a file is "ok", "missing" (rasterio.open fails) or "corrupt"   *)
(* (the header opens, read(1) fails).                                      *)
(***************************************************************************)
Patches ==
    [ p \in 1..7 |->
        CASE p = 1 -> [px |-> 1, left |-> 0, top |-> 4, h |-> 4, w |-> 4,
                       base |-> 10, step |-> 1, status |-> "ok"]
          [] p = 2 -> [px |-> 1, left |-> 2, top |-> 6, h |-> 4, w |-> 4,
                       base |-> 100, step |-> 21, status |-> "ok"]
          [] p = 3 -> [px |-> 1, left |-> 1, top |-> 4, h |-> 3, w |-> 3,
                       base |-> -5, step |-> 1, status |-> "ok"]
          [] p = 4 -> [px |-> 2, left |-> 0, top |-> 4, h |-> 2, w |-> 2,
                       base |-> 7, step |-> 0, status |-> "ok"]
          [] p = 5 -> [px |-> 1, left |-> 5, top |-> 1, h |-> 1, w |-> 1,
                       base |-> 9, step |-> 0, status |-> "ok"]
          [] p = 6 -> [px |-> 1, left |-> 0, top |-> 4, h |-> 4, w |-> 4,
                       base |-> 1, step |-> 0, status |-> "missing"]
          [] p = 7 -> [px |-> 1, left |-> 2, top |-> 4, h |-> 4, w |-> 4,
                       base |-> 1, step |-> 0, status |-> "corrupt"] ]

PatchIds == DOMAIN Patches

\* src.read(1)[r, c]
PatchData(p, r, c) == Patches[p].base + Patches[p].step * (r * Patches[p].w + c)

\* src.bounds: (left, bottom, right, top)
PatchBounds(p) ==
    LET P == Patches[p]
    IN  <<P.left, P.top - P.h * P.px, P.left + P.w * P.px, P.top>>

\* rasterio.open(pf) succeeds
CanOpen(p) == Patches[p].status # "missing"

\* a mutant of CanRead: a failed read is swallowed and the patch goes on
CanReadAnything(p) == TRUE

\* src.read(1) succeeds
CanRead(p) == Patches[p].status = "ok"

\* os.listdir(patch_folder): patch files 2 and 1, and a file that is no raster
FolderListing == { [id |-> 2, tif |-> TRUE], [id |-> 1, tif |-> TRUE],
                   [id |-> 8, tif |-> FALSE] }

RECURSIVE SortedSeq(_)
\* sorted(S) for a set of integers
SortedSeq(S) ==
    IF S = {} THEN <<>>
    ELSE LET m == CHOOSE x \in S : \A y \in S : x <= y
         IN  <<m>> \o SortedSeq(S \ {m})


(***************************************************************************)
(* NumPy windows.                                                          *)
(***************************************************************************)
\* a slice bound as NumPy normalises it on an axis of length n
SliceBound(x, n) == IF x < 0 THEN Max(x + n, 0) ELSE Min(x, n)

\* the indices buf[start:stop] selects on an axis of length n
SliceIndices(start, stop, n) ==
    { k \in 0..(n - 1) : SliceBound(start, n) <= k /\ k < SliceBound(stop, n) }

\* an operand of length len broadcasts onto a target axis of length target
AxisBroadcasts(len, target) == len = target \/ len = 1

\* buf[row_off:row_off+h, col_off:col_off+w] += val does not raise
Broadcastable(hh, ww, row_off, col_off, h, w) ==
    /\ AxisBroadcasts(h, Cardinality(SliceIndices(row_off, row_off + h, hh)))
    /\ AxisBroadcasts(w, Cardinality(SliceIndices(col_off, col_off + w, ww)))

\* a mutant of InPlaceAdd: the window is assigned, not added to
InPlaceAssign(buf, hh, ww, row_off, col_off, h, w, val) ==
    LET rows == SliceIndices(row_off, row_off + h, hh)
        cols == SliceIndices(col_off, col_off + w, ww)
        r0 == SliceBound(row_off, hh)
        c0 == SliceBound(col_off, ww)
    IN  [ cell \in DOMAIN buf |->
            IF cell[1] \in rows /\ cell[2] \in cols
            THEN val[<< IF h = 1 THEN 0 ELSE cell[1] - r0,
                        IF w = 1 THEN 0 ELSE cell[2] - c0 >>]
            ELSE buf[cell] ]

\* buf[row_off:row_off+h, col_off:col_off+w] += val, for a buf of shape
\* (hh, ww) and a val of shape (h, w) that broadcasts onto the window
InPlaceAdd(buf, hh, ww, row_off, col_off, h, w, val) ==
    LET rows == SliceIndices(row_off, row_off + h, hh)
        cols == SliceIndices(col_off, col_off + w, ww)
        r0 == SliceBound(row_off, hh)
        c0 == SliceBound(col_off, ww)
    IN  [ cell \in DOMAIN buf |->
            IF cell[1] \in rows /\ cell[2] \in cols
            THEN buf[cell] + val[<< IF h = 1 THEN 0 ELSE cell[1] - r0,
                                    IF w = 1 THEN 0 ELSE cell[2] - c0 >>]
            ELSE buf[cell] ]

Cells(hh, ww) == (0..(hh - 1)) \X (0..(ww - 1))

(***************************************************************************)
(* Normalisation, masking, quantisation.                                   *)
(***************************************************************************)
Zero == Rat(0, 1)

\* a mutant of Divide: the out buffer starts as ones, not zeros
DivideIntoOnes(a, ws) == IF ws > 0 THEN Rat(a, ws) ELSE Rat(1, 1)

\* np.divide(acc, weight_sum, out=np.zeros_like(acc), where=(weight_sum > 0))
Divide(a, ws) == IF ws > 0 THEN Rat(a, ws) ELSE Zero

\* reproject(mask, nearest) onto the canvas: the resampled mask value at a cell
MaskData(cell) == (cell[1] + 2 * cell[2]) % 3

\* np.clip(v, lo, hi)
Clip(v, lo, hi) ==
    IF v.n < lo * v.d THEN Rat(lo, 1)
    ELSE IF v.n > hi * v.d THEN Rat(hi, 1)
    ELSE v

\* the integer part of v, towards zero
Truncate(v) == IF v.n >= 0 THEN v.n \div v.d ELSE -((-v.n) \div v.d)

\* a mutant of ConvertDtype: the cast without the clip wraps modulo 2^bits
ConvertDtypeWrapping(v, dt) ==
    CASE dt = "uint16" -> Rat(Truncate(v) % 65536, 1)
      [] dt = "uint8" -> Rat(Truncate(v) % 256, 1)
      [] OTHER -> v

\* the dtype conversion of one value: clip and cast for uint16 and uint8,
\* nothing for any other dtype
ConvertDtype(v, dt) ==
    CASE dt = "uint16" -> Rat(Truncate(Clip(v, 0, 65535)), 1)
      [] dt = "uint8" -> Rat(Truncate(Clip(v, 0, 255)), 1)
      [] OTHER -> v

(***************************************************************************)
(* State.                                                                  *)
(***************************************************************************)
VARIABLES
    \* blend_patches_to_raster
    pc,            \* the statement the call is at
    err,           \* the exception that ended the call, "" for none
    files_given,   \* patch_files is not None
    patch_folder,  \* "None" or a folder
    patch_files,   \* the patch list
    blend, dtype, mask_file,
    pixel_size,    \* pixel_size_x = pixel_size_y of the reference patch
    bbox,          \* <<minx, miny, maxx, maxy>>, <<>> while they are None
    i,             \* the index of the loop in progress
    width, height,
    acc, weight_sum,
    result,
    opened,        \* the patch files opened so far
    pixels_read,   \* the patch files whose samples were read so far
    accumulated,   \* the patch files added to the accumulators, in order
    output,        \* <<>>, or <<the raster written to output_path>>
    \* a weight map computed alone
    w_pc, w_h, w_w, w_map,
    \* a dtype conversion applied alone
    q_pc, q_value, q_dtype, q_out,
    \* raster_to_polygons_gdal
    g_pc, g_err, raster_files, threshold, g_i, out_layer, features

blendVars == <<pc, err, files_given, patch_folder, patch_files, blend, dtype,
               mask_file, pixel_size, bbox, i, width, height, acc, weight_sum,
               result, opened, pixels_read, accumulated, output>>

weightVars == <<w_pc, w_h, w_w, w_map>>

quantVars == <<q_pc, q_value, q_dtype, q_out>>

polyVars == <<g_pc, g_err, raster_files, threshold, g_i, out_layer, features>>

vars == <<blendVars, weightVars, quantVars, polyVars>>

RECURSIVE SeqsUpTo(_, _)
\* the sequences of at most n distinct elements of S
SeqsUpTo(S, n) ==
    IF n = 0 THEN {<<>>}
    ELSE LET shorter == SeqsUpTo(S, n - 1)
         IN  shorter \cup
             { Append(s, x) : s \in { t \in shorter : Len(t) = n - 1 },
                              x \in S }

Range(s) == { s[k] : k \in DOMAIN s }

Distinct(s) == Cardinality(Range(s)) = Len(s)

(***************************************************************************)
(* blend_patches_to_raster, statement by statement.                        *)
(***************************************************************************)
BlendIdle ==
    /\ pc = "idle" /\ err = ""
    /\ files_given = FALSE /\ patch_folder = "None" /\ patch_files = <<>>
    /\ blend = "average" /\ dtype = "uint16" /\ mask_file = "None"
    /\ pixel_size = 0 /\ bbox = <<>> /\ i = 0
    /\ width = 0 /\ height = 0
    /\ acc = <<>> /\ weight_sum = <<>> /\ result = <<>>
    /\ opened = {} /\ pixels_read = {} /\ accumulated = <<>>
    /\ output = <<>>

\* the call: its arguments
BlendCall ==
    /\ pc = "start" /\ err = ""
    /\ \/ /\ files_given = TRUE
          /\ patch_files \in { s \in SeqsUpTo(PatchIds, MaxPatches) : Distinct(s) }
          /\ patch_folder = "None"
       \/ /\ files_given = FALSE
          /\ patch_files = <<>>
          /\ patch_folder \in {"None", "folder"}
    /\ blend \in BlendModes \cup {"median"}
    /\ dtype \in {"uint16", "uint8", "float32"}
    /\ mask_file \in {"None", "mask.tif"}
    /\ pixel_size = 0 /\ bbox = <<>> /\ i = 0
    /\ width = 0 /\ height = 0
    /\ acc = <<>> /\ weight_sum = <<>> /\ result = <<>>
    /\ opened = {} /\ pixels_read = {} /\ accumulated = <<>>
    /\ output = <<>>

Raise(e) == pc' = "error" /\ err' = e

\* lines 52-62: the patch list, listed from the folder when it is not given
ResolvePatchFiles ==
    /\ pc = "start"
    /\ LET listed == SortedSeq({ f.id : f \in { g \in FolderListing : g.tif } })
           files == IF files_given THEN patch_files ELSE listed
       IN  IF ~files_given /\ patch_folder = "None"
           THEN Raise("ValueError") /\ UNCHANGED patch_files
           ELSE IF files = <<>>
           THEN Raise("FileNotFoundError") /\ UNCHANGED patch_files
           ELSE pc' = "reference" /\ patch_files' = files /\ UNCHANGED err
    /\ UNCHANGED <<files_given, patch_folder, blend, dtype, mask_file,
                   pixel_size, bbox, i, width, height, acc, weight_sum, result,
                   opened, pixels_read, accumulated, output>>
    /\ UNCHANGED <<weightVars, quantVars, polyVars>>

\* lines 65-69: the reference metadata, from the first patch
ReadReference ==
    /\ pc = "reference"
    /\ IF CanOpen(patch_files[1])
       THEN /\ opened' = opened \cup {patch_files[1]}
            /\ pixel_size' = Patches[patch_files[1]].px
            /\ pc' = "bounds" /\ i' = 1
            /\ UNCHANGED err
       ELSE Raise("RasterioIOError") /\ UNCHANGED <<opened, pixel_size, i>>
    /\ UNCHANGED <<files_given, patch_folder, patch_files, blend, dtype,
                   mask_file, bbox, width, height, acc, weight_sum, result,
                   pixels_read, accumulated, output>>
    /\ UNCHANGED <<weightVars, quantVars, polyVars>>

\* lines 73-79: one iteration of the loop over the patch bounds
ScanBounds ==
    /\ pc = "bounds" /\ i <= Len(patch_files)
    /\ LET pf == patch_files[i]
           b == PatchBounds(pf)
       IN  IF CanOpen(pf)
           THEN /\ opened' = opened \cup {pf}
                /\ bbox' = IF bbox = <<>> THEN b
                           ELSE << Min(bbox[1], b[1]), Min(bbox[2], b[2]),
                                   Max(bbox[3], b[3]), Max(bbox[4], b[4]) >>
                /\ i' = i + 1
                /\ UNCHANGED <<pc, err>>
           ELSE Raise("RasterioIOError") /\ UNCHANGED <<opened, bbox, i>>
    /\ UNCHANGED <<files_given, patch_folder, patch_files, blend, dtype,
                   mask_file, pixel_size, width, height, acc, weight_sum,
                   result, pixels_read, accumulated, output>>
    /\ UNCHANGED <<weightVars, quantVars, polyVars>>

\* lines 81-89: the canvas size and the zeroed accumulators
AllocateCanvas ==
    /\ pc = "bounds" /\ i > Len(patch_files)
    /\ LET ww == CeilDiv(bbox[3] - bbox[1], pixel_size)
           hh == CeilDiv(bbox[4] - bbox[2], pixel_size)
       IN  /\ width' = ww /\ height' = hh
           /\ acc' = [cell \in Cells(hh, ww) |-> 0]
           /\ weight_sum' = [cell \in Cells(hh, ww) |-> 0]
    /\ pc' = "blend" /\ i' = 1
    /\ UNCHANGED <<err, files_given, patch_folder, patch_files, blend, dtype,
                   mask_file, pixel_size, bbox, result, opened, pixels_read,
                   accumulated, output>>
    /\ UNCHANGED <<weightVars, quantVars, polyVars>>

\* lines 106-108: the window offset of a patch, (row_off, col_off)
Offset(pf) ==
    << RoundHalfEven(bbox[4] - Patches[pf].top, pixel_size),
       RoundHalfEven(Patches[pf].left - bbox[1], pixel_size) >>

\* lines 97-102: the weight map of a patch
Weight(pf, mode) ==
    [ rc \in Cells(Patches[pf].h, Patches[pf].w) |->
        BlendWeight(mode, Patches[pf].h, Patches[pf].w, rc[1], rc[2]) ]

\* data * weight
Weighted(pf, mode) ==
    [ rc \in Cells(Patches[pf].h, Patches[pf].w) |->
        PatchData(pf, rc[1], rc[2]) * Weight(pf, mode)[rc] ]

\* lines 92-111: one iteration of the loop that accumulates the patches
BlendPatch ==
    /\ pc = "blend" /\ i <= Len(patch_files)
    /\ LET pf == patch_files[i]
           h == Patches[pf].h
           w == Patches[pf].w
           off == Offset(pf)
       IN  IF ~CanOpen(pf)
           THEN /\ Raise("RasterioIOError")
                /\ UNCHANGED <<i, acc, weight_sum, opened, pixels_read, accumulated>>
           ELSE IF ~CanRead(pf)
           THEN /\ Raise("RasterioIOError")
                /\ opened' = opened \cup {pf}
                /\ UNCHANGED <<i, acc, weight_sum, pixels_read, accumulated>>
           ELSE IF blend \notin BlendModes
           THEN /\ Raise("ValueError")
                /\ opened' = opened \cup {pf}
                /\ pixels_read' = pixels_read \cup {pf}
                /\ UNCHANGED <<i, acc, weight_sum, accumulated>>
           ELSE IF ~Broadcastable(height, width, off[1], off[2], h, w)
           THEN /\ Raise("ValueError")
                /\ opened' = opened \cup {pf}
                /\ pixels_read' = pixels_read \cup {pf}
                /\ UNCHANGED <<i, acc, weight_sum, accumulated>>
           ELSE /\ acc' = InPlaceAdd(acc, height, width, off[1], off[2], h, w,
                                     Weighted(pf, blend))
                /\ weight_sum' = InPlaceAdd(weight_sum, height, width, off[1],
                                            off[2], h, w, Weight(pf, blend))
                /\ opened' = opened \cup {pf}
                /\ pixels_read' = pixels_read \cup {pf}
                /\ accumulated' = Append(accumulated, pf)
                /\ i' = i + 1
                /\ UNCHANGED <<pc, err>>
    /\ UNCHANGED <<files_given, patch_folder, patch_files, blend, dtype,
                   mask_file, pixel_size, bbox, width, height, result, output>>
    /\ UNCHANGED <<weightVars, quantVars, polyVars>>

\* line 114: combine patches
Normalize ==
    /\ pc = "blend" /\ i > Len(patch_files)
    /\ result' = [cell \in DOMAIN acc |-> Divide(acc[cell], weight_sum[cell])]
    /\ pc' = "mask"
    /\ UNCHANGED <<err, files_given, patch_folder, patch_files, blend, dtype,
                   mask_file, pixel_size, bbox, i, width, height, acc,
                   weight_sum, opened, pixels_read, accumulated, output>>
    /\ UNCHANGED <<weightVars, quantVars, polyVars>>

\* lines 117-130: the optional mask keeps the cells where it is 1
ApplyMask ==
    /\ pc = "mask"
    /\ result' = IF mask_file = "None" THEN result
                 ELSE [cell \in DOMAIN result |->
                         IF MaskData(cell) = 1 THEN result[cell] ELSE Zero]
    /\ pc' = "dtype"
    /\ UNCHANGED <<err, files_given, patch_folder, patch_files, blend, dtype,
                   mask_file, pixel_size, bbox, i, width, height, acc,
                   weight_sum, opened, pixels_read, accumulated, output>>
    /\ UNCHANGED <<weightVars, quantVars, polyVars>>

\* lines 133-136: convert dtype
ConvertResult ==
    /\ pc = "dtype"
    /\ result' = [cell \in DOMAIN result |-> ConvertDtype(result[cell], dtype)]
    /\ pc' = "save"
    /\ UNCHANGED <<err, files_given, patch_folder, patch_files, blend, dtype,
                   mask_file, pixel_size, bbox, i, width, height, acc,
                   weight_sum, opened, pixels_read, accumulated, output>>
    /\ UNCHANGED <<weightVars, quantVars, polyVars>>

\* lines 139-154: save output
SaveOutput ==
    /\ pc = "save"
    /\ output' = << [dtype |-> dtype, height |-> height, width |-> width,
                     data |-> result] >>
    /\ pc' = "done"
    /\ UNCHANGED <<err, files_given, patch_folder, patch_files, blend, dtype,
                   mask_file, pixel_size, bbox, i, width, height, acc,
                   weight_sum, result, opened, pixels_read, accumulated>>
    /\ UNCHANGED <<weightVars, quantVars, polyVars>>

WeightIdle == w_pc = "idle" /\ w_h = 0 /\ w_w = 0 /\ w_map = <<>>

QuantIdle == q_pc = "idle" /\ q_value = Zero /\ q_dtype = "" /\ q_out = Zero

PolyIdle ==
    /\ g_pc = "idle" /\ g_err = "" /\ raster_files = <<>> /\ threshold = 0
    /\ g_i = 0 /\ out_layer = FALSE /\ features = <<>>

InitBlend == BlendCall /\ WeightIdle /\ QuantIdle /\ PolyIdle

NextBlend ==
    \/ ResolvePatchFiles
    \/ ReadReference
    \/ ScanBounds
    \/ AllocateCanvas
    \/ BlendPatch
    \/ Normalize
    \/ ApplyMask
    \/ ConvertResult
    \/ SaveOutput

SpecBlend == InitBlend /\ [][NextBlend]_vars

(***************************************************************************)
(* Properties of blend_patches_to_raster.                                   *)
(***************************************************************************)
\* the accumulation loop has ended without an error
Accumulated ==
    \/ pc = "blend" /\ i > Len(patch_files)
    \/ pc \in {"mask", "dtype", "save", "done"}

\* the normalised result is in result (before the mask and the conversion)
Normalized == pc = "mask"

\* the window of patch pf lies inside the canvas
InsideCanvas(pf) ==
    /\ Offset(pf)[1] >= 0 /\ Offset(pf)[1] + Patches[pf].h <= height
    /\ Offset(pf)[2] >= 0 /\ Offset(pf)[2] + Patches[pf].w <= width

\* canvas cell `cell` is in the window the loop computes for patch pf
Covers(pf, cell) ==
    /\ Offset(pf)[1] <= cell[1] /\ cell[1] < Offset(pf)[1] + Patches[pf].h
    /\ Offset(pf)[2] <= cell[2] /\ cell[2] < Offset(pf)[2] + Patches[pf].w

\* the sample of patch pf that lies on canvas cell `cell`
SampleAt(pf, cell) ==
    PatchData(pf, cell[1] - Offset(pf)[1], cell[2] - Offset(pf)[2])

ConfigFault ==
    \/ files_given /\ patch_files = <<>>
    \/ blend \notin BlendModes
    \/ dtype \notin {"uint16", "uint8"}

\* C1: an empty patch list, an unknown blend mode or an unknown output dtype
\* raises an error before any processing: under such a configuration no patch
\* is ever read or accumulated, no output is written, and the call does not
\* complete.
C1_ConfigFaultsFailFast ==
    ConfigFault =>
        /\ pixels_read = {} /\ accumulated = <<>>
        /\ output = <<>> /\ pc # "done"

\* C2: a patch whose offset plus shape extends outside the canvas makes the
\* blend fail: every patch the accumulation loop has gone past without an
\* error lies inside the canvas.
C2_OutOfCanvasFails ==
    pc \in {"blend", "mask", "dtype", "save", "done"} =>
        \A k \in DOMAIN accumulated : InsideCanvas(accumulated[k])

\* C3: blending a single patch alone yields, after normalisation, the patch's
\* own value at every canvas cell of its footprint, border included, in each
\* of the three modes.
C3_SinglePatchReproduced ==
    (Normalized /\ Len(patch_files) = 1) =>
        \A cell \in DOMAIN result :
            Covers(patch_files[1], cell) =>
                result[cell] = Rat(SampleAt(patch_files[1], cell), 1)

RECURSIVE FoldAcc(_)
\* acc after the patches of seq are accumulated in the order of seq
FoldAcc(seq) ==
    IF seq = <<>> THEN [cell \in Cells(height, width) |-> 0]
    ELSE LET pf == seq[Len(seq)]
         IN  InPlaceAdd(FoldAcc(SubSeq(seq, 1, Len(seq) - 1)), height, width,
                        Offset(pf)[1], Offset(pf)[2], Patches[pf].h,
                        Patches[pf].w, Weighted(pf, blend))

RECURSIVE FoldWeightSum(_)
\* weight_sum after the patches of seq are accumulated in the order of seq
FoldWeightSum(seq) ==
    IF seq = <<>> THEN [cell \in Cells(height, width) |-> 0]
    ELSE LET pf == seq[Len(seq)]
         IN  InPlaceAdd(FoldWeightSum(SubSeq(seq, 1, Len(seq) - 1)), height,
                        width, Offset(pf)[1], Offset(pf)[2], Patches[pf].h,
                        Patches[pf].w, Weight(pf, blend))

\* C4: with the canvas geometry of the run held fixed, the accumulator pair the
\* run ends with, and the result normalised from it, are those of the same
\* patches accumulated in sorted order: the processing order does not matter.
C4_OrderIndependent ==
    Accumulated =>
        LET sorted == SortedSeq(Range(patch_files))
        IN  /\ acc = FoldAcc(sorted)
            /\ weight_sum = FoldWeightSum(sorted)
            /\ Normalized =>
                 result = [cell \in DOMAIN acc |->
                             Divide(FoldAcc(sorted)[cell],
                                    FoldWeightSum(sorted)[cell])]

\* three overlapping patches accumulated in an order that is not the sorted one
C4_Witness ==
    /\ Normalized /\ blend = "hann"
    /\ accumulated = <<2, 3, 1>>
    /\ \E cell \in DOMAIN acc : \A k \in 1..3 : Covers(accumulated[k], cell)

\* C5: an output raster exists only when every patch of the list was readable
\* and has been accumulated; with an unreadable patch in the list the call
\* never completes and never writes.
C5_NoOutputFromSubset ==
    /\ output # <<>> =>
         /\ \A k \in DOMAIN patch_files : Patches[patch_files[k]].status = "ok"
         /\ accumulated = patch_files
    /\ (\E k \in DOMAIN patch_files : Patches[patch_files[k]].status # "ok") =>
         output = <<>> /\ pc # "done"

\* a patch fails to read after another was accumulated, and nothing is written
C5_Witness ==
    /\ pc = "error" /\ err = "RasterioIOError"
    /\ accumulated # <<>> /\ Len(accumulated) < Len(patch_files)
    /\ output = <<>>

\* the patches of the list whose window holds the cell
Covering(cell) == { k \in DOMAIN patch_files : Covers(patch_files[k], cell) }

RECURSIVE SumSamples(_, _)
SumSamples(K, cell) ==
    IF K = {} THEN 0
    ELSE LET k == CHOOSE x \in K : TRUE
         IN  SampleAt(patch_files[k], cell) + SumSamples(K \ {k}, cell)

\* C7: in mode 'average' every canvas cell covered by k >= 1 patches holds,
\* after normalisation, the arithmetic mean of the k samples on it, and every
\* cell no patch covers holds 0.
C7_AverageIsMean ==
    (Normalized /\ blend = "average") =>
        \A cell \in DOMAIN result :
            IF Covering(cell) = {} THEN result[cell] = Zero
            ELSE result[cell] =
                   Rat(SumSamples(Covering(cell), cell),
                       Cardinality(Covering(cell)))

\* the two 4x4 patches that overlap in a 2x2 region, blended in mode 'average'
C7_Witness ==
    /\ Normalized /\ blend = "average" /\ patch_files = <<1, 2>>
    /\ Cardinality({ cell \in DOMAIN result :
                       Cardinality(Covering(cell)) = 2 }) = 4
    /\ \E cell \in DOMAIN result : Covering(cell) = {}
    /\ \E cell \in DOMAIN result : Cardinality(Covering(cell)) = 1

\* C8: every canvas pixel whose accumulated weight is zero is exactly 0 after
\* normalisation, after the mask, after the dtype conversion and in the raster
\* written.
C8_ZeroWeightIsZero ==
    /\ pc \in {"mask", "dtype", "save", "done"} =>
         \A cell \in DOMAIN result :
             weight_sum[cell] = 0 => result[cell] = Zero
    /\ output # <<>> =>
         \A cell \in DOMAIN weight_sum :
             weight_sum[cell] = 0 => output[1].data[cell] = Zero

\* a raster written in mode 'hann': zero weight on a covered border cell and on
\* an uncovered cell, and a cell that is not 0
C8_Witness ==
    /\ pc = "done" /\ blend = "hann" /\ output # <<>>
    /\ \E cell \in DOMAIN weight_sum :
         weight_sum[cell] = 0 /\ Covering(cell) # {}
    /\ \E cell \in DOMAIN weight_sum :
         weight_sum[cell] = 0 /\ Covering(cell) = {}
    /\ \E cell \in DOMAIN weight_sum : output[1].data[cell] # Zero

(***************************************************************************)
(* _distance_weight applied alone to every shape up to MaxDim x MaxDim.    *)
(***************************************************************************)
WeightCall ==
    /\ w_pc = "start"
    /\ w_h \in 1..MaxDim /\ w_w \in 1..MaxDim
    /\ w_map = <<>>

\* lines 10-20: the weight map of an h x w patch
ComputeDistanceWeight ==
    /\ w_pc = "start"
    /\ w_map' = [rc \in Cells(w_h, w_w) |-> DistanceWeight(w_h, w_w, rc[1], rc[2])]
    /\ w_pc' = "done"
    /\ UNCHANGED <<w_h, w_w, blendVars, quantVars, polyVars>>

InitWeight == WeightCall /\ BlendIdle /\ QuantIdle /\ PolyIdle

NextWeight == ComputeDistanceWeight

SpecWeight == InitWeight /\ [][NextWeight]_vars

\* the cells of the outermost ring of an h x w map
BorderRing(h, w) ==
    { rc \in Cells(h, w) :
        rc[1] = 0 \/ rc[1] = h - 1 \/ rc[2] = 0 \/ rc[2] = w - 1 }

\* the geometric centre cell(s) of an h x w map: one, two or four
CentreCells(h, w) ==
    { rc \in Cells(h, w) :
        /\ rc[1] \in {(h - 1) \div 2, h \div 2}
        /\ rc[2] \in {(w - 1) \div 2, w \div 2} }

\* C6 as stated: every cell of the map lies in [0, 1], the border ring is
\* exactly 0, and the map is 1 at the geometric centre cell(s).
C6_ReachesOneAtCentre ==
    w_pc = "done" =>
        /\ \A rc \in DOMAIN w_map : 0 <= w_map[rc] /\ w_map[rc] <= WScale
        /\ \A rc \in BorderRing(w_h, w_w) : w_map[rc] = 0
        /\ \A rc \in CentreCells(w_h, w_w) : w_map[rc] = WScale

\* C6 as amended: every cell of the map lies in [0, 1], the border ring is
\* exactly 0, and at the geometric centre cell(s) the map takes its largest
\* value, float16(2 * floor((m - 1) / 2) / m) for m = min(h, w), which is
\* below 1.
C6_PeakBelowOneAtCentre ==
    w_pc = "done" =>
        LET m == Min(w_h, w_w)
            peak == Float16(2 * ((m - 1) \div 2), m)
        IN  /\ \A rc \in DOMAIN w_map : 0 <= w_map[rc] /\ w_map[rc] <= peak
            /\ \A rc \in BorderRing(w_h, w_w) : w_map[rc] = 0
            /\ \A rc \in CentreCells(w_h, w_w) : w_map[rc] = peak
            /\ peak < WScale

\* the map of a 4 x 6 patch: 0 on the ring, 1/2 at the two centre cells
C6_Witness ==
    /\ w_pc = "done" /\ w_h = 4 /\ w_w = 6
    /\ w_map[<<0, 3>>] = 0 /\ w_map[<<3, 5>>] = 0
    /\ w_map[<<1, 2>>] = WScale \div 2 /\ w_map[<<2, 3>>] = WScale \div 2

(***************************************************************************)
(* The dtype conversion applied alone to values around the type limits.    *)
(***************************************************************************)
QuantValues ==
    { Rat(n, d) : n \in {-70000, -5, -1, 0, 1, 7, 255, 256, 300, 511, 65535,
                         65536, 70000, 131071, 140001},
                  d \in {1, 2} }

QuantCall ==
    /\ q_pc = "start"
    /\ q_value \in QuantValues
    /\ q_dtype \in {"uint16", "uint8", "float32"}
    /\ q_out = Zero

\* lines 133-136 on one value of the normalised result
ConvertValue ==
    /\ q_pc = "start"
    /\ q_out' = ConvertDtype(q_value, q_dtype)
    /\ q_pc' = "done"
    /\ UNCHANGED <<q_value, q_dtype, blendVars, weightVars, polyVars>>

InitQuant == QuantCall /\ BlendIdle /\ WeightIdle /\ PolyIdle

NextQuant == ConvertValue

SpecQuant == InitQuant /\ [][NextQuant]_vars

\* the largest value of an output integer type
TypeMax(dt) == IF dt = "uint16" THEN 65535 ELSE 255

\* C9: for uint16 and uint8 the converted value is the integer part of the
\* value saturated to [0, max of the type]: values at or above the maximum
\* give the maximum, values at or below 0 give 0, and every output lies in the
\* range of the type.
C9_Saturates ==
    (q_pc = "done" /\ q_dtype \in {"uint16", "uint8"}) =>
        LET hi == TypeMax(q_dtype)
        IN  /\ q_out.d = 1 /\ 0 <= q_out.n /\ q_out.n <= hi
            /\ q_value.n >= hi * q_value.d => q_out.n = hi
            /\ q_value.n <= 0 => q_out.n = 0
            /\ (0 < q_value.n /\ q_value.n < hi * q_value.d) =>
                 /\ q_out.n * q_value.d <= q_value.n
                 /\ q_value.n < (q_out.n + 1) * q_value.d

\* 70000 converted to uint16 is 65535
C9_Witness ==
    /\ q_pc = "done" /\ q_dtype = "uint16"
    /\ q_value = Rat(70000, 1) /\ q_out = Rat(65535, 1)

(***************************************************************************)
(* raster_to_polygons_gdal.  A raster is one row of pixels; the polygons   *)
(* of its thresholded mask are the maximal runs of pixels >= threshold.    *)
(***************************************************************************)
Rasters ==
    [ r \in 1..5 |->
        CASE r = 1 -> [name |-> "r1_prob", status |-> "ok",
                       pixels |-> <<600, 650, 0, 700>>]
          [] r = 2 -> [name |-> "r2_prob", status |-> "ok",
                       pixels |-> <<0, 550, 100>>]
          [] r = 3 -> [name |-> "r3_prob", status |-> "ok",
                       pixels |-> <<100, 200>>]
          [] r = 4 -> [name |-> "r4_prob", status |-> "unreadable",
                       pixels |-> <<>>]
          [] r = 5 -> [name |-> "r5_prob", status |-> "noarray",
                       pixels |-> <<>>] ]

RECURSIVE CountRuns(_, _)
\* the number of maximal runs of pixels >= t in the row
CountRuns(pixels, t) ==
    IF pixels = <<>> THEN 0
    ELSE LET n == Len(pixels)
             rest == CountRuns(SubSeq(pixels, 1, n - 1), t)
         IN  IF pixels[n] >= t /\ (n = 1 \/ pixels[n - 1] < t)
             THEN rest + 1 ELSE rest

\* gdal.Polygonize(band, band, out_layer, 0): one feature per region of the
\* mask, the region's pixel value (1) written to field 0, the 'source' field
Polygonize(r, t) ==
    [ k \in 1..CountRuns(Rasters[r].pixels, t) |->
        [origin |-> r, region |-> k, source |-> "1"] ]

\* lines 92-94: the 'source' field of every feature of the layer is set
SetSource(layer, name) ==
    [ k \in DOMAIN layer |-> [layer[k] EXCEPT !.source = name] ]

PolyCall ==
    /\ g_pc = "start" /\ g_err = ""
    /\ raster_files \in { s \in SeqsUpTo(DOMAIN Rasters, MaxRasters) : Distinct(s) }
    /\ threshold \in {500, 600}
    /\ g_i = 0 /\ out_layer = FALSE /\ features = <<>>

\* lines 34-44: the raster list and the output data source
CreateDataSource ==
    /\ g_pc = "start"
    /\ IF raster_files = <<>>
       THEN g_pc' = "error" /\ g_err' = "FileNotFoundError" /\ UNCHANGED g_i
       ELSE g_pc' = "loop" /\ g_i' = 1 /\ UNCHANGED g_err
    /\ UNCHANGED <<raster_files, threshold, out_layer, features>>
    /\ UNCHANGED <<blendVars, weightVars, quantVars>>

\* lines 46-98: one iteration of the loop over the rasters
ProcessRaster ==
    /\ g_pc = "loop" /\ g_i <= Len(raster_files)
    /\ LET r == raster_files[g_i]
       IN  IF Rasters[r].status # "ok"
           THEN UNCHANGED <<out_layer, features>>
           ELSE /\ out_layer' = TRUE
                /\ features' = SetSource(features \o Polygonize(r, threshold),
                                         Rasters[r].name)
    /\ g_i' = g_i + 1
    /\ UNCHANGED <<g_pc, g_err, raster_files, threshold>>
    /\ UNCHANGED <<blendVars, weightVars, quantVars>>

\* lines 100-101: the data source is flushed
CloseDataSource ==
    /\ g_pc = "loop" /\ g_i > Len(raster_files)
    /\ g_pc' = "done"
    /\ UNCHANGED <<g_err, raster_files, threshold, g_i, out_layer, features>>
    /\ UNCHANGED <<blendVars, weightVars, quantVars>>

InitPoly == PolyCall /\ BlendIdle /\ WeightIdle /\ QuantIdle

NextPoly ==
    \/ CreateDataSource
    \/ ProcessRaster
    \/ CloseDataSource

SpecPoly == InitPoly /\ [][NextPoly]_vars

\* C10: every feature of the output layer carries in 'source' the name of the
\* raster it was extracted from, after each raster processed and at the end.
C10_SourceNamesOrigin ==
    \A k \in DOMAIN features :
        features[k].source = Rasters[features[k].origin].name

=============================================================================
